---- MODULE Spec2Model ----
(***************************************************************************)
(* Model of src/django_resources.py:                                       *)
(*   create_aws_resource_for_django_on_lambda                              *)
(* One sequential operation issuing provider (boto3) calls, followed by a  *)
(* polling loop on describe_db_instances.  The provider is the environment:*)
(* it keeps the created resources, may reject any call, and moves the      *)
(* database instance through its lifecycle on its own.                     *)
(***************************************************************************)
EXTENDS Integers, Sequences, FiniteSets, TLC

\* ---------------------------------------------------------------- bounds
MaxRuns == 2
MaxPolls == 3

\* ------------------------------------------------- ambient configuration
VpcIds == {"vpc-1"}
DbIdentifiers == {"app-db-1", "app-db-2"}
BucketNames == {"my-static-bucket", "other-bucket"}

VARIABLES
    pc,                               \* position in the function body
    run,                              \* number of invocations started
    env,                              \* os.environ / S3_BUCKET_NAME of this run
    security_group,                   \* security_group.id (0: unbound)
    origin_access_identity_id,        \* local of the same name (0: unbound)
    cloudfront_distribution_response, \* Distribution.DomainName (0: unbound)
    rds_db_instances,                 \* DBInstances of the last response
    db_host_name,                     \* local of the same name (<<>>: unbound)
    result,                           \* {} or {the returned dict}
    raised,                           \* {} or {the exception that left the function}
    calls,                            \* provider calls of this run, in order
    waits,                            \* time.sleep(100) calls of this run
    groups,                           \* provider: security groups, with the rules attached by authorize calls
    instances,                        \* provider: DB instances
    removed,                          \* provider: DB instances deleted by a third party
    buckets,                          \* provider: buckets
    identities,                       \* provider: origin access identities
    policies,                         \* provider: bucket policies
    distributions                     \* provider: distributions

locals == <<security_group, origin_access_identity_id,
            cloudfront_distribution_response, rds_db_instances, db_host_name>>
provider == <<groups, instances, removed, buckets, identities, policies, distributions>>
vars == <<pc, run, env, locals, result, raised, calls, waits, provider>>

\* ------------------------------------------------------ argument literals
EgressPermissions ==
    [IpProtocol |-> "-1", FromPort |-> 0, ToPort |-> 0,
     IpRanges |-> {}, Ipv6Ranges |-> {"::/0"}]

\* variant: ingress narrowed to the PostgreSQL port
IngressPermissionsPostgres ==
    [IpProtocol |-> "tcp", FromPort |-> 5432, ToPort |-> 5432,
     IpRanges |-> {"0.0.0.0/0"}, Ipv6Ranges |-> {"::/0"}]

IngressPermissions ==
    [IpProtocol |-> "-1", FromPort |-> 0, ToPort |-> 0,
     IpRanges |-> {"0.0.0.0/0"}, Ipv6Ranges |-> {"::/0"}]

\* variant: the group is looked up again by its fixed name, which finds the oldest one
DbInstanceRequestByName(dbid, sg) ==
    [DBInstanceIdentifier |-> dbid,
     VpcSecurityGroupIds |-> <<IF groups = {} THEN sg
                               ELSE (CHOOSE g \in groups : \A h \in groups : g.id <= h.id).id>>]

DbInstanceRequest(dbid, sg) ==
    [DBInstanceIdentifier |-> dbid, VpcSecurityGroupIds |-> <<sg>>]

\* variant: the identity is remembered from the first run that created one
PolicyDocumentCached(bucket, oai) ==
    [Statement |-> <<[Effect |-> "Allow",
                      Principal |-> {<<"arn:aws:iam::cloudfront:user/CloudFront Origin Access Identity",
                                       IF identities = {} THEN oai
                                       ELSE (CHOOSE x \in identities :
                                                \A y \in identities : x.id <= y.id).id>>},
                      Action |-> "s3:GetObject",
                      Resource |-> <<"arn:aws:s3:::", bucket, "/*">>]>>]

\* json.dumps of the policy dict: one statement, one principal
PolicyDocument(bucket, oai) ==
    [Statement |-> <<[Effect |-> "Allow",
                      Principal |-> {<<"arn:aws:iam::cloudfront:user/CloudFront Origin Access Identity", oai>>},
                      Action |-> "s3:GetObject",
                      Resource |-> <<"arn:aws:s3:::", bucket, "/*">>]>>]

DistributionConfig(bucket, oai) ==
    [Origins |-> [Quantity |-> 1,
                  Items |-> <<[Id |-> bucket,
                               DomainName |-> <<bucket, ".s3.amazonaws.com">>,
                               OriginAccessIdentity |-> <<"origin-access-identity/cloudfront", oai>>]>>],
     TargetOriginId |-> bucket]

DescribeRequest(dbid) ==
    [DBInstanceIdentifier |-> "string", Filters |-> <<dbid>>, MaxRecords |-> 20]

\* variant: a misspelt key
ResultMappingTypo(host, domain) ==
    [db_host_name |-> host, cloudfront_domain |-> domain]

ResultMapping(host, domain) ==
    [db_host_name |-> host, cloudfront_domain_name |-> domain]

\* ------------------------------------------------------------ descriptors
NoEndpoint == [kind |-> "absent"]
EmptyEndpoint == [kind |-> "empty"]
EndpointAt(address) == [kind |-> "set", Address |-> address]

AddressOf(dbid) == <<dbid, ".xxxx.us-east-1.rds.amazonaws.com">>

\* variant: the test looks at a key the descriptor never has
HasEndpointWrongKey(descriptor) == FALSE

\* rds_db_instances["DBInstances"][0].get("Endpoint") is truthy
HasEndpoint(descriptor) == descriptor.Endpoint.kind = "set"

\* ---------------------------------------------------------- control flow
\* variant: the bucket is created before the database instance
NextPcBucketFirst(step) ==
    CASE step = "create_security_group" -> "authorize_egress"
      [] step = "authorize_egress" -> "authorize_ingress"
      [] step = "authorize_ingress" -> "create_bucket"
      [] step = "create_bucket" -> "create_db_instance"
      [] step = "create_db_instance" -> "create_cloud_front_origin_access_identity"
      [] step = "create_cloud_front_origin_access_identity" -> "put_bucket_policy"
      [] step = "put_bucket_policy" -> "create_distribution"
      [] step = "create_distribution" -> "describe_db_instances"

\* the statement after a provider call that returned normally
NextPc(step) ==
    CASE step = "create_security_group" -> "authorize_egress"
      [] step = "authorize_egress" -> "authorize_ingress"
      [] step = "authorize_ingress" -> "create_db_instance"
      [] step = "create_db_instance" -> "create_bucket"
      [] step = "create_bucket" -> "create_cloud_front_origin_access_identity"
      [] step = "create_cloud_front_origin_access_identity" -> "put_bucket_policy"
      [] step = "put_bucket_policy" -> "create_distribution"
      [] step = "create_distribution" -> "describe_db_instances"

\* variant: the exception is swallowed and the function carries on
AfterExceptionSwallowed(step) ==
    IF step = "describe_db_instances" THEN "sleep" ELSE NextPc(step)

\* where an exception raised by a call takes the function: out of it
AfterException(step) == "failed"

\* variant: an empty DBInstances list is taken as "not ready yet"
AfterEmptyResponseTolerated == "sleep"

\* rds_db_instances["DBInstances"][0] on an empty list: IndexError leaves the function
AfterEmptyResponse == "failed"

\* variant: no break after the endpoint was found
AfterAvailableNoBreak == "sleep"

\* the loop body after the endpoint test: break
AfterAvailable == "return"

\* variant: the break is outside the if
AfterPendingBreak == "return"

\* variant: the loop queries again at once, without time.sleep
AfterPendingNoSleep == "describe_db_instances"

\* the loop body after the endpoint test: no endpoint yet
AfterPending == "sleep"

\* variant: the loop starts at the distribution step
AfterSleepRecreate == "create_distribution"

\* the statement after time.sleep(100): the top of the loop
AfterSleep == "describe_db_instances"

\* ------------------------------------------------------- provider helpers
\* provider-assigned identifiers are never reused
NewId(existing) == Cardinality(existing) + 1

\* errors with which the provider may reject a call
ProviderErrors(op) ==
    CASE op = "put_bucket_policy" -> {"PolicyAttachmentError"}
      [] op = "create_bucket" -> {"ResourceCreationError", "PermissionError"}
      [] OTHER -> {"ResourceCreationError"}

Rejected(op, kind) == [op |-> op, kind |-> kind, reason |-> "rejected"]
AlreadyExists(op) == [op |-> op, kind |-> "ResourceCreationError", reason |-> "already exists"]

\* raised by the function itself, not by the provider
IndexError == [op |-> "local", kind |-> "IndexError", reason |-> "DBInstances[0]"]

\* the descriptor describe_db_instances gives for an instance
Descriptors(i) ==
    IF i.status = "available"
    THEN {[DBInstanceIdentifier |-> i.id, Endpoint |-> i.Endpoint]}
    ELSE {[DBInstanceIdentifier |-> i.id, Endpoint |-> e] : e \in {NoEndpoint, EmptyEndpoint}}

\* ------------------------------------------------------------ call log
Log(op, args, out) ==
    calls' = Append(calls, [op |-> op, args |-> args, out |-> out])

NumCalls(op) == Cardinality({i \in 1..Len(calls) : calls[i].op = op})

\* variant: a handler deletes this run's security group before re-raising
RaiseWithCleanup(op, args, err) ==
    /\ Log(op, args, [ok |-> FALSE, error |-> err])
    /\ pc' = "failed"
    /\ raised' = {err}
    /\ groups' = {g \in groups : g.run # run}
    /\ UNCHANGED <<run, env, locals, result, waits, instances, removed, buckets,
                   identities, policies, distributions>>

\* an exception of a call propagates: nothing catches it, nothing is undone
Raise(op, args, err) ==
    /\ Log(op, args, [ok |-> FALSE, error |-> err])
    /\ pc' = AfterException(op)
    /\ raised' = {err}
    /\ UNCHANGED <<run, env, locals, result, waits, provider>>

ProviderRejects(op, args) ==
    \E kind \in ProviderErrors(op) : Raise(op, args, Rejected(op, kind))

\* ------------------------------------------------------------------ Init
Init ==
    /\ pc = "idle"
    /\ run = 0
    /\ env \in [DEFAULT_VPC_ID : VpcIds, DB_INSTANCE_IDENTIFIER : DbIdentifiers,
                S3_BUCKET_NAME : BucketNames]
    /\ security_group = 0
    /\ origin_access_identity_id = 0
    /\ cloudfront_distribution_response = 0
    /\ rds_db_instances = <<>>
    /\ db_host_name = <<>>
    /\ result = {}
    /\ raised = {}
    /\ calls = <<>>
    /\ waits = 0
    /\ groups = {}
    /\ instances = {}
    /\ removed = {}
    /\ buckets = {}
    /\ identities = {}
    /\ policies = {}
    /\ distributions = {}

\* --------------------------------------------------------------- actions
\* a (new) process calls the function; its environment names the resources
Invoke ==
    /\ pc \in {"idle", "returned", "failed"}
    /\ run < MaxRuns
    /\ run' = run + 1
    /\ env' \in IF run = 0 THEN {env}
                ELSE [DEFAULT_VPC_ID : VpcIds, DB_INSTANCE_IDENTIFIER : DbIdentifiers,
                      S3_BUCKET_NAME : BucketNames]
    /\ pc' = "create_security_group"
    /\ security_group' = 0
    /\ origin_access_identity_id' = 0
    /\ cloudfront_distribution_response' = 0
    /\ rds_db_instances' = <<>>
    /\ db_host_name' = <<>>
    /\ result' = {}
    /\ raised' = {}
    /\ calls' = <<>>
    /\ waits' = 0
    /\ UNCHANGED provider

CreateSecurityGroup ==
    /\ pc = "create_security_group"
    /\ LET op == "create_security_group"
           args == [GroupName |-> "django-rds-security-group", VpcId |-> env.DEFAULT_VPC_ID]
           id == NewId(groups)
       IN \/ ProviderRejects(op, args)
          \/ /\ groups' = groups \cup {[id |-> id, GroupName |-> args.GroupName,
                                        VpcId |-> args.VpcId, egress |-> {},
                                        ingress |-> {}, run |-> run]}
             /\ security_group' = id
             /\ Log(op, args, [ok |-> TRUE, GroupId |-> id])
             /\ pc' = NextPc(op)
             /\ UNCHANGED <<run, env, origin_access_identity_id,
                            cloudfront_distribution_response, rds_db_instances,
                            db_host_name, result, raised, waits, instances, removed,
                            buckets, identities, policies, distributions>>

AuthorizeEgress ==
    /\ pc = "authorize_egress"
    /\ LET op == "authorize_egress"
           args == [GroupId |-> security_group, IpPermissions |-> {EgressPermissions}]
       IN \/ ProviderRejects(op, args)
          \/ /\ groups' = {IF g.id = security_group
                           THEN [g EXCEPT !.egress = @ \cup args.IpPermissions]
                           ELSE g : g \in groups}
             /\ Log(op, args, [ok |-> TRUE])
             /\ pc' = NextPc(op)
             /\ UNCHANGED <<run, env, locals, result, raised, waits, instances, removed,
                            buckets, identities, policies, distributions>>

AuthorizeIngress ==
    /\ pc = "authorize_ingress"
    /\ LET op == "authorize_ingress"
           args == [GroupId |-> security_group, IpPermissions |-> {IngressPermissions}]
       IN \/ ProviderRejects(op, args)
          \/ /\ groups' = {IF g.id = security_group
                           THEN [g EXCEPT !.ingress = @ \cup args.IpPermissions]
                           ELSE g : g \in groups}
             /\ Log(op, args, [ok |-> TRUE])
             /\ pc' = NextPc(op)
             /\ UNCHANGED <<run, env, locals, result, raised, waits, instances, removed,
                            buckets, identities, policies, distributions>>

CreateDbInstance ==
    /\ pc = "create_db_instance"
    /\ LET op == "create_db_instance"
           args == DbInstanceRequest(env.DB_INSTANCE_IDENTIFIER, security_group)
       IN \/ ProviderRejects(op, args)
          \/ /\ \E i \in instances : i.id = args.DBInstanceIdentifier
             /\ Raise(op, args, AlreadyExists(op))
          \/ /\ \A i \in instances : i.id # args.DBInstanceIdentifier
             /\ instances' = instances \cup
                    {[id |-> args.DBInstanceIdentifier,
                      groups |-> {args.VpcSecurityGroupIds[k] :
                                     k \in 1..Len(args.VpcSecurityGroupIds)},
                      status |-> "creating", Endpoint |-> NoEndpoint, run |-> run]}
             /\ Log(op, args, [ok |-> TRUE])
             /\ pc' = NextPc(op)
             /\ UNCHANGED <<run, env, locals, result, raised, waits, groups, removed,
                            buckets, identities, policies, distributions>>

\* variant: an existing bucket of that name is taken as success
CreateBucketIdempotent ==
    /\ pc = "create_bucket"
    /\ LET op == "create_bucket"
           args == [ACL |-> "private", Bucket |-> env.S3_BUCKET_NAME]
       IN \/ ProviderRejects(op, args)
          \/ /\ buckets' = buckets \cup
                    IF \E b \in buckets : b.name = args.Bucket THEN {}
                    ELSE {[name |-> args.Bucket, ACL |-> args.ACL, run |-> run]}
             /\ Log(op, args, [ok |-> TRUE])
             /\ pc' = NextPc(op)
             /\ UNCHANGED <<run, env, locals, result, raised, waits, groups, instances,
                            removed, identities, policies, distributions>>

CreateBucket ==
    /\ pc = "create_bucket"
    /\ LET op == "create_bucket"
           args == [ACL |-> "private", Bucket |-> env.S3_BUCKET_NAME]
       IN \/ ProviderRejects(op, args)
          \/ /\ \E b \in buckets : b.name = args.Bucket
             /\ Raise(op, args, AlreadyExists(op))
          \/ /\ \A b \in buckets : b.name # args.Bucket
             /\ buckets' = buckets \cup {[name |-> args.Bucket, ACL |-> args.ACL, run |-> run]}
             /\ Log(op, args, [ok |-> TRUE])
             /\ pc' = NextPc(op)
             /\ UNCHANGED <<run, env, locals, result, raised, waits, groups, instances,
                            removed, identities, policies, distributions>>

CreateOriginAccessIdentity ==
    /\ pc = "create_cloud_front_origin_access_identity"
    /\ LET op == "create_cloud_front_origin_access_identity"
           args == [Comment |-> <<"access-identity-", env.S3_BUCKET_NAME, ".s3.amazonaws.com\"">>]
           id == NewId(identities)
       IN \/ ProviderRejects(op, args)
          \/ /\ identities' = identities \cup {[id |-> id, run |-> run]}
             /\ origin_access_identity_id' = id
             /\ Log(op, args, [ok |-> TRUE, Id |-> id])
             /\ pc' = NextPc(op)
             /\ UNCHANGED <<run, env, security_group, cloudfront_distribution_response,
                            rds_db_instances, db_host_name, result, raised, waits,
                            groups, instances, removed, buckets, policies, distributions>>

PutBucketPolicy ==
    /\ pc = "put_bucket_policy"
    /\ LET op == "put_bucket_policy"
           args == [Bucket |-> env.S3_BUCKET_NAME,
                    Policy |-> PolicyDocument(env.S3_BUCKET_NAME, origin_access_identity_id)]
       IN \/ ProviderRejects(op, args)
          \/ /\ policies' = {p \in policies : p.bucket # args.Bucket} \cup
                    {[bucket |-> args.Bucket, Policy |-> args.Policy, run |-> run]}
             /\ Log(op, args, [ok |-> TRUE])
             /\ pc' = NextPc(op)
             /\ UNCHANGED <<run, env, locals, result, raised, waits, groups, instances,
                            removed, buckets, identities, distributions>>

CreateDistribution ==
    /\ pc = "create_distribution"
    /\ LET op == "create_distribution"
           args == DistributionConfig(env.S3_BUCKET_NAME, origin_access_identity_id)
           id == NewId(distributions)
       IN \/ ProviderRejects(op, args)
          \/ /\ distributions' = distributions \cup
                    {[DomainName |-> id, config |-> args, run |-> run]}
             /\ cloudfront_distribution_response' = id
             /\ Log(op, args, [ok |-> TRUE, DomainName |-> id])
             /\ pc' = NextPc(op)
             /\ UNCHANGED <<run, env, security_group, origin_access_identity_id,
                            rds_db_instances, db_host_name, result, raised, waits,
                            groups, instances, removed, buckets, identities, policies>>

\* one iteration of the while loop up to the endpoint test
DescribeDbInstances ==
    /\ pc = "describe_db_instances"
    /\ NumCalls("describe_db_instances") < MaxPolls
    /\ LET op == "describe_db_instances"
           args == DescribeRequest(env.DB_INSTANCE_IDENTIFIER)
           matching == {i \in instances :
                           \E k \in 1..Len(args.Filters) : i.id = args.Filters[k]}
       IN \/ ProviderRejects(op, args)
          \/ /\ matching = {}
             \* DBInstances is empty: [0] raises IndexError
             /\ Log(op, args, [ok |-> TRUE, DBInstances |-> <<>>])
             /\ rds_db_instances' = <<>>
             /\ pc' = AfterEmptyResponse
             /\ raised' = {IndexError}
             /\ UNCHANGED <<run, env, security_group, origin_access_identity_id,
                            cloudfront_distribution_response, db_host_name, result,
                            waits, provider>>
          \/ \E i \in matching : \E d \in Descriptors(i) :
             /\ Log(op, args, [ok |-> TRUE, DBInstances |-> <<d>>])
             /\ rds_db_instances' = <<d>>
             /\ IF HasEndpoint(d)
                THEN /\ db_host_name' = d.Endpoint.Address
                     /\ pc' = AfterAvailable
                ELSE /\ db_host_name' = db_host_name
                     /\ pc' = AfterPending
             /\ UNCHANGED <<run, env, security_group, origin_access_identity_id,
                            cloudfront_distribution_response, result, raised,
                            waits, provider>>

Sleep ==
    /\ pc = "sleep"
    /\ waits' = waits + 1
    /\ pc' = AfterSleep
    /\ UNCHANGED <<run, env, locals, result, raised, calls, provider>>

Return ==
    /\ pc = "return"
    /\ result' = {ResultMapping(db_host_name, cloudfront_distribution_response)}
    /\ pc' = "returned"
    /\ UNCHANGED <<run, env, locals, raised, calls, waits, provider>>

\* ---------------------------------------------- the provider's own steps
DbBecomesAvailable ==
    \E i \in instances :
        /\ i.status = "creating"
        /\ instances' = (instances \ {i}) \cup
               {[i EXCEPT !.status = "available", !.Endpoint = EndpointAt(AddressOf(i.id))]}
        /\ UNCHANGED <<pc, run, env, locals, result, raised, calls, waits, groups,
                       removed, buckets, identities, policies, distributions>>

DbFailsPermanently ==
    \E i \in instances :
        /\ i.status = "creating"
        /\ instances' = (instances \ {i}) \cup {[i EXCEPT !.status = "failed"]}
        /\ UNCHANGED <<pc, run, env, locals, result, raised, calls, waits, groups,
                       removed, buckets, identities, policies, distributions>>

DbDeletedByThirdParty ==
    \E i \in instances :
        /\ instances' = instances \ {i}
        /\ removed' = removed \cup {i}
        /\ UNCHANGED <<pc, run, env, locals, result, raised, calls, waits, groups,
                       buckets, identities, policies, distributions>>

Next ==
    \/ Invoke
    \/ CreateSecurityGroup
    \/ AuthorizeEgress
    \/ AuthorizeIngress
    \/ CreateDbInstance
    \/ CreateBucket
    \/ CreateOriginAccessIdentity
    \/ PutBucketPolicy
    \/ CreateDistribution
    \/ DescribeDbInstances
    \/ Sleep
    \/ Return
    \/ DbBecomesAvailable
    \/ DbFailsPermanently
    \/ DbDeletedByThirdParty

Spec == Init /\ [][Next]_vars

TypeOK ==
    /\ pc \in {"idle", "create_security_group", "authorize_egress", "authorize_ingress",
               "create_db_instance", "create_bucket",
               "create_cloud_front_origin_access_identity", "put_bucket_policy",
               "create_distribution", "describe_db_instances", "sleep", "return",
               "returned", "failed"}
    /\ run \in 0..MaxRuns
    /\ Cardinality(result) <= 1
    /\ Cardinality(raised) <= 1

\* ------------------------------------------------------------ properties
CreationOrder ==
    <<"create_security_group", "authorize_egress", "authorize_ingress",
      "create_db_instance", "create_bucket",
      "create_cloud_front_origin_access_identity", "put_bucket_policy",
      "create_distribution">>

CreationOps == {CreationOrder[i] : i \in 1..Len(CreationOrder)}

IsDescribe(c) == c.op = "describe_db_instances"
Answered(c) == IsDescribe(c) /\ c.out.ok /\ Len(c.out.DBInstances) >= 1
IsAvailable(c) == Answered(c) /\ c.out.DBInstances[1].Endpoint.kind = "set"
IsPending(c) == Answered(c) /\ c.out.DBInstances[1].Endpoint.kind # "set"
LastCall == calls[Len(calls)]
PrincipalOf(id) == <<"arn:aws:iam::cloudfront:user/CloudFront Origin Access Identity", id>>

\* C1: the provider calls of a run are issued in the fixed order security
\* group, egress rule, ingress rule, DB instance, bucket, identity, policy,
\* distribution, and only then describe_db_instances; a call is issued only
\* after every earlier call of the run has returned normally.
C1_FixedOrder ==
    \A i \in 1..Len(calls) :
        /\ calls[i].op = IF i <= Len(CreationOrder) THEN CreationOrder[i]
                         ELSE "describe_db_instances"
        /\ i < Len(calls) => calls[i].out.ok

C1_Witness ==
    /\ Len(calls) = Len(CreationOrder) + 1
    /\ IsDescribe(LastCall)
    /\ \A i \in 1..Len(calls) : calls[i].out.ok

\* C2: a failed provider call is the last call of its run: the operation
\* ends with that very error, returns no result, and issues no later call
\* (so a failed Database Step leaves bucket, identity, policy and
\* distribution calls unissued).
C2_ShortCircuit ==
    \A i \in 1..Len(calls) :
        ~calls[i].out.ok =>
            /\ i = Len(calls)
            /\ pc = "failed"
            /\ raised = {calls[i].out.error}
            /\ result = {}

C2_Witness ==
    /\ pc = "failed"
    /\ Len(calls) = 4
    /\ LastCall.op = "create_db_instance"
    /\ ~LastCall.out.ok
    /\ raised = {LastCall.out.error}
    /\ NumCalls("create_bucket") = 0

\* C3: the operation leaves the loop and returns only when the last
\* describe_db_instances response carried a non-empty Endpoint for the
\* instance named by this run, and db_host_name is that endpoint's address.
C3_NeverAbsentEndpoint ==
    pc \in {"return", "returned"} =>
        /\ Len(calls) >= 1
        /\ IsAvailable(LastCall)
        /\ LastCall.out.DBInstances[1].DBInstanceIdentifier = env.DB_INSTANCE_IDENTIFIER
        /\ db_host_name = LastCall.out.DBInstances[1].Endpoint.Address
        /\ \A r \in result : r.db_host_name = LastCall.out.DBInstances[1].Endpoint.Address

C3_Witness ==
    /\ pc = "returned"
    /\ result # {}
    /\ \E i \in 1..Len(calls) : IsPending(calls[i])
    /\ IsAvailable(LastCall)

\* C4: after k Pending responses followed by an Available one the loop has
\* issued exactly k+1 describe queries: an Available response is never
\* followed by another query, and the returned endpoint is its address.
C4_ExactQueries ==
    /\ \A i \in 1..Len(calls) : IsAvailable(calls[i]) => i = Len(calls)
    /\ pc = "returned" =>
          /\ NumCalls("describe_db_instances") =
                 Cardinality({i \in 1..Len(calls) : IsPending(calls[i])}) + 1
          /\ \A r \in result :
                 /\ Len(calls) >= 1
                 /\ IsAvailable(LastCall)
                 /\ r.db_host_name = LastCall.out.DBInstances[1].Endpoint.Address

C4_Witness ==
    /\ pc = "returned"
    /\ NumCalls("describe_db_instances") = 3
    /\ Cardinality({i \in 1..Len(calls) : IsPending(calls[i])}) = 2
    /\ IsAvailable(LastCall)
    /\ result = {ResultMapping(LastCall.out.DBInstances[1].Endpoint.Address,
                               cloudfront_distribution_response)}

\* C5: a result exists only once the readiness wait has found the endpoint;
\* it has exactly the keys db_host_name and cloudfront_domain_name, holding
\* the address the wait found and the domain name this run's
\* create_distribution call returned.
C5_Result ==
    \A r \in result :
        /\ pc = "returned"
        /\ Cardinality(result) = 1
        /\ DOMAIN r = {"db_host_name", "cloudfront_domain_name"}
        /\ Len(calls) >= 1
        /\ IsAvailable(LastCall)
        /\ r.db_host_name = LastCall.out.DBInstances[1].Endpoint.Address
        /\ \E i \in 1..Len(calls) :
              /\ calls[i].op = "create_distribution"
              /\ calls[i].out.ok
              /\ r.cloudfront_domain_name = calls[i].out.DomainName

C5_Witness ==
    /\ result # {}
    /\ run = 2
    /\ \E d \in distributions : d.run = 1
    /\ \E d \in distributions : d.run = 2 /\ \A r \in result : r.cloudfront_domain_name = d.DomainName

\* C6: create_db_instance is given exactly the id of the group this run's
\* create_security_group returned; the policy and the distribution's single
\* origin both name the identity this run's identity call returned and the
\* bucket this run's create_bucket call created.
C6_DependencyInjection ==
    \A i \in 1..Len(calls) :
        /\ calls[i].op = "create_db_instance" =>
              \E j \in 1..(i - 1) :
                 /\ calls[j].op = "create_security_group" /\ calls[j].out.ok
                 /\ calls[i].args.VpcSecurityGroupIds = <<calls[j].out.GroupId>>
        /\ calls[i].op = "put_bucket_policy" =>
              \E b \in 1..(i - 1), j \in 1..(i - 1) :
                 /\ calls[b].op = "create_bucket" /\ calls[b].out.ok
                 /\ calls[j].op = "create_cloud_front_origin_access_identity"
                 /\ calls[j].out.ok
                 /\ calls[i].args.Bucket = calls[b].args.Bucket
                 /\ Len(calls[i].args.Policy.Statement) = 1
                 /\ calls[i].args.Policy.Statement[1].Principal = {PrincipalOf(calls[j].out.Id)}
                 /\ calls[i].args.Policy.Statement[1].Resource =
                        <<"arn:aws:s3:::", calls[b].args.Bucket, "/*">>
        /\ calls[i].op = "create_distribution" =>
              \E b \in 1..(i - 1), j \in 1..(i - 1) :
                 /\ calls[b].op = "create_bucket" /\ calls[b].out.ok
                 /\ calls[j].op = "create_cloud_front_origin_access_identity"
                 /\ calls[j].out.ok
                 /\ calls[i].args.Origins.Quantity = 1
                 /\ Len(calls[i].args.Origins.Items) = 1
                 /\ calls[i].args.Origins.Items[1].Id = calls[b].args.Bucket
                 /\ calls[i].args.Origins.Items[1].DomainName =
                        <<calls[b].args.Bucket, ".s3.amazonaws.com">>
                 /\ calls[i].args.Origins.Items[1].OriginAccessIdentity =
                        <<"origin-access-identity/cloudfront", calls[j].out.Id>>

C6_Witness ==
    /\ run = 2
    /\ Len(calls) >= 8
    /\ calls[8].op = "create_distribution"
    /\ calls[8].out.ok
    /\ security_group = 2
    /\ calls[4].args.VpcSecurityGroupIds = <<2>>

\* C7: every attached policy grants read access to exactly one principal,
\* the identity created in the run that attached the policy, and to no
\* identity created by an earlier run.
C7_NoCrossRunLeak ==
    \A p \in policies :
        /\ Len(p.Policy.Statement) = 1
        /\ \E idt \in identities :
              /\ idt.run = p.run
              /\ p.Policy.Statement[1].Principal = {PrincipalOf(idt.id)}
        /\ \A old \in identities :
              old.run < p.run => PrincipalOf(old.id) \notin p.Policy.Statement[1].Principal

C7_Witness ==
    /\ \E p \in policies : p.run = 2
    /\ \E old \in identities : old.run = 1

\* C8: in one run every creation call of steps 1-6 is issued at most once,
\* and exactly once when the run returns; only describe_db_instances
\* repeats.
C8_OncePerRun ==
    \A op \in CreationOps :
        /\ NumCalls(op) <= 1
        /\ pc = "returned" => NumCalls(op) = 1

C8_Witness ==
    /\ pc = "returned"
    /\ NumCalls("describe_db_instances") >= 2
    /\ \A op \in CreationOps : NumCalls(op) = 1

\* C9: nothing is rolled back: whatever calls of this run succeeded, the
\* resources they created are still there as the calls left them (the DB
\* instance unless a third party deleted it), also once a later call has
\* failed; the run issues only create, authorize, put and describe calls.
C9_NoRollback ==
    /\ \A i \in 1..Len(calls) : calls[i].op \in CreationOps \cup {"describe_db_instances"}
    /\ \A i \in 1..Len(calls) :
          calls[i].out.ok =>
             /\ calls[i].op = "create_security_group" =>
                   \E g \in groups :
                      /\ g.id = calls[i].out.GroupId
                      /\ g.run = run
                      /\ g.egress = UNION {calls[j].args.IpPermissions : j \in
                             {k \in 1..Len(calls) : calls[k].op = "authorize_egress"
                                                    /\ calls[k].out.ok}}
                      /\ g.ingress = UNION {calls[j].args.IpPermissions : j \in
                             {k \in 1..Len(calls) : calls[k].op = "authorize_ingress"
                                                    /\ calls[k].out.ok}}
             /\ calls[i].op = "create_db_instance" =>
                   \E d \in instances \cup removed :
                      /\ d.id = calls[i].args.DBInstanceIdentifier
                      /\ d.run = run
             /\ calls[i].op = "create_bucket" =>
                   \E b \in buckets : b.name = calls[i].args.Bucket /\ b.run = run
             /\ calls[i].op = "create_cloud_front_origin_access_identity" =>
                   \E idt \in identities : idt.id = calls[i].out.Id /\ idt.run = run
             /\ calls[i].op = "put_bucket_policy" =>
                   \E p \in policies :
                      /\ p.bucket = calls[i].args.Bucket
                      /\ p.Policy = calls[i].args.Policy
                      /\ p.run = run
             /\ calls[i].op = "create_distribution" =>
                   \E d \in distributions :
                      d.DomainName = calls[i].out.DomainName /\ d.run = run

C9_Witness ==
    /\ pc = "failed"
    /\ LastCall.op = "authorize_ingress"
    /\ ~LastCall.out.ok
    /\ \E g \in groups :
          /\ g.id = security_group
          /\ g.run = run
          /\ g.egress = {EgressPermissions}
          /\ g.ingress = {}

\* the run was invoked with the names of resources an earlier run created
SameNamesAgain ==
    /\ run >= 2
    /\ \E g \in groups : g.run < run /\ g.VpcId = env.DEFAULT_VPC_ID
    /\ \E d \in instances \cup removed : d.run < run /\ d.id = env.DB_INSTANCE_IDENTIFIER
    /\ \E b \in buckets : b.run < run /\ b.name = env.S3_BUCKET_NAME

\* C10 as stated: in a re-invocation with the same names the naming
\* collision is surfaced from the Object Store Step (create_bucket).
C10_CollisionFromBucketStep ==
    SameNamesAgain =>
        \A e \in raised : e.reason = "already exists" => e.op = "create_bucket"

\* C10 as amended: a re-invocation with the same names never returns a
\* result and never gets past the Object Store Step; while the earlier
\* run's DB instance still exists the collision is surfaced by the Database
\* Step and create_bucket is never issued.
C10_CollisionNoSilentSuccess ==
    SameNamesAgain =>
        /\ result = {}
        /\ pc \in {"create_security_group", "authorize_egress", "authorize_ingress",
                   "create_db_instance", "create_bucket", "failed"}
        /\ \A i \in 1..Len(calls) : calls[i].op = "create_bucket" => ~calls[i].out.ok
        /\ (\E d \in instances : d.run < run /\ d.id = env.DB_INSTANCE_IDENTIFIER) =>
              NumCalls("create_bucket") = 0
        /\ \A e \in raised :
              e.reason = "already exists" => e.op \in {"create_db_instance", "create_bucket"}

C10_Witness ==
    /\ SameNamesAgain
    /\ pc = "failed"
    /\ raised = {AlreadyExists("create_db_instance")}
    /\ NumCalls("create_bucket") = 0

\* C11 as stated: a describe the provider answered without an endpoint
\* (instance deleted or permanently failed) never ends the operation: it
\* neither raises nor returns, it stays in the loop.
C11_NoFailureOutcome ==
    (Len(calls) >= 1 /\ IsDescribe(LastCall) /\ LastCall.out.ok /\ ~IsAvailable(LastCall)) =>
        /\ pc \in {"sleep", "describe_db_instances"}
        /\ raised = {}
        /\ result = {}

\* C11 as amended: a permanently failed instance never gets an endpoint and
\* its answers leave the operation in the loop, neither raising nor
\* returning; an answer with no instance (the instance was deleted) ends
\* the operation with IndexError and without a result.
C11_FailedWaitsDeletedRaises ==
    /\ \A i \in instances : i.status = "failed" => ~HasEndpoint(i)
    /\ (Len(calls) >= 1 /\ IsDescribe(LastCall) /\ LastCall.out.ok) =>
          /\ IsPending(LastCall) =>
                /\ pc \in {"sleep", "describe_db_instances"}
                /\ raised = {}
                /\ result = {}
          /\ LastCall.out.DBInstances = <<>> =>
                /\ pc = "failed"
                /\ raised = {IndexError}
                /\ result = {}

C11_Witness ==
    /\ pc = "failed"
    /\ raised = {IndexError}
    /\ LastCall.out.DBInstances = <<>>
    /\ \E i \in 1..Len(calls) : IsPending(calls[i])
    /\ \E d \in removed : d.run = run /\ d.id = env.DB_INSTANCE_IDENTIFIER /\ d.status = "failed"

\* the group of this run once create_security_group and both authorize
\* calls have returned normally
Step1Done ==
    \E i \in 1..Len(calls) : calls[i].op = "authorize_ingress" /\ calls[i].out.ok

Unrestricted(rule) ==
    /\ rule.IpProtocol = "-1"
    /\ rule.FromPort = 0
    /\ rule.ToPort = 0
    /\ "0.0.0.0/0" \in rule.IpRanges
    /\ "::/0" \in rule.Ipv6Ranges

Program ==
    \/ CreateSecurityGroup
    \/ AuthorizeEgress
    \/ AuthorizeIngress
    \/ CreateDbInstance
    \/ CreateBucket
    \/ CreateOriginAccessIdentity
    \/ PutBucketPolicy
    \/ CreateDistribution
    \/ DescribeDbInstances
    \/ Sleep
    \/ Return

InvokeOnce == run = 0 /\ Invoke

OneCallNext ==
    \/ InvokeOnce
    \/ Program
    \/ DbBecomesAvailable
    \/ DbFailsPermanently
    \/ DbDeletedByThirdParty

FairSpec == Init /\ [][OneCallNext]_vars /\ WF_vars(Program)

\* the loop is running, a further query is within the bound, and the
\* instance this run named reports an endpoint
EndpointReported ==
    /\ pc \in {"describe_db_instances", "sleep"}
    /\ NumCalls("describe_db_instances") < MaxPolls
    /\ \E i \in instances : i.id = env.DB_INSTANCE_IDENTIFIER /\ i.Endpoint.kind = "set"

\* C13: once the instance reports an endpoint while the loop is running,
\* the operation eventually returns a result, unless a provider call fails
\* or the instance is taken away (both end the operation with an error).
C13_EventuallyReturns ==
    EndpointReported ~> (pc = "returned" \/ pc = "failed")

C13_Witness ==
    /\ pc = "returned"
    /\ result # {}
    /\ waits >= 1
    /\ \E i \in instances : i.id = env.DB_INSTANCE_IDENTIFIER /\ i.Endpoint.kind = "set"

\* C14: every describe_db_instances query names, as its instance identifier
\* and in its filter, the identifier this run passed to create_db_instance,
\* and the descriptor it inspects is that instance's.
C14_DescribeForCreatedInstance ==
    \A i \in 1..Len(calls) :
        IsDescribe(calls[i]) =>
            \E j \in 1..(i - 1) :
                /\ calls[j].op = "create_db_instance"
                /\ calls[j].out.ok
                /\ calls[i].args.Filters = <<calls[j].args.DBInstanceIdentifier>>
                /\ calls[i].args.DBInstanceIdentifier = calls[j].args.DBInstanceIdentifier
                /\ Answered(calls[i]) =>
                      calls[i].out.DBInstances[1].DBInstanceIdentifier =
                          calls[j].args.DBInstanceIdentifier

\* C15: one time.sleep follows every query that found the instance Pending,
\* before the next query, and none follows the query that found the
\* endpoint: a run that returns after n queries has slept n-1 times, and
\* no sleep happens outside the loop.
C15_WaitPerPendingQuery ==
    /\ waits = Cardinality({i \in 1..Len(calls) : IsPending(calls[i])})
                   - (IF pc = "sleep" THEN 1 ELSE 0)
    /\ NumCalls("describe_db_instances") = 0 => waits = 0
    /\ pc = "sleep" => Len(calls) >= 1 /\ IsPending(LastCall)
    /\ pc \in {"return", "returned"} => waits = NumCalls("describe_db_instances") - 1

C15_Witness ==
    /\ pc = "returned"
    /\ NumCalls("describe_db_instances") = 3
    /\ waits = 2

====
